---- MODULE Spec2Model ----
(***************************************************************************)
(* State-machine model of svgenotyper/model.py: construction of            *)
(* SVGenotyperPyroModel, one evaluation of its generative model and the    *)
(* two discrete-inference loops (infer_discrete, infer_discrete_full).     *)
(*                                                                         *)
(* Numbers.  Every real quantity is an exact fixed-point or rational       *)
(* number.  Hyperparameters, eps and lambda are integers in units of       *)
(* 1/Unit.  Rates eta are in units of ln 2, so that exp(-eta) is a power   *)
(* of two; probabilities are numerators over PriorDen(k).  The negative-   *)
(* binomial parameters are pairs <<numerator, denominator>>; a zero        *)
(* denominator is the float division by zero of the source (inf or nan).   *)
(*                                                                         *)
(* Tensors.  A tensor is [shape, val]: its shape and its entry at one      *)
(* arbitrary index (v, s).  Every tensor operation of the source is        *)
(* elementwise, a broadcast along the variant/sample axes or the gather    *)
(* Vindex(locs)[..., z], so the entry at an index is a function of the     *)
(* operands' entries at that index.  Shapes follow torch broadcasting.     *)
(***************************************************************************)
EXTENDS Integers, Sequences, FiniteSets, TLC

VARIABLES
    pc,                 \* position of the caller: new, ready, loop, full, done, raised
    self,               \* the SVGenotyperPyroModel object (its fields)
    error,              \* the exception that ended construction or a call ("" if none)
    data,               \* the SVGenotyperData passed to the running call
    call,               \* the running call: method, svtype argument, n_samples, sites
    i,                  \* loop index of the running inference loop
    guide_trace,        \* the guide trace replayed by the running call
    guide_draws,        \* how many traces the guide has produced so far
    replayed,           \* per collected draw, which guide trace it replayed
    posterior_samples,  \* per collected draw, the recorded site values
    last,               \* locals of the latest evaluation of model()
    result              \* the mapping returned by the call

vars == <<pc, self, error, data, call, i, guide_trace, guide_draws, replayed,
          posterior_samples, last, result>>

-----------------------------------------------------------------------------
(* Bounds of the model.                                                    *)

MaxKArg == 6        \* explicit k arguments range over 0..MaxKArg
MaxN == 2           \* n_samples ranges over 0..MaxN
MaxV == 2           \* variants
MaxS == 2           \* samples
MaxEta == 1         \* eta ranges over 0..MaxEta+1 (in ln 2); the last one underflows
MaxPhi == 2         \* phi ranges over 1..MaxPhi
MaxEps == 1         \* the eps site ranges over 0..MaxEps
MaxLambda == 1      \* the lambda site ranges over 0..MaxLambda
MaxDepth == 2       \* depth ranges over 1..MaxDepth
MaxCount == 1       \* a resampled count ranges over 0..MaxCount

-----------------------------------------------------------------------------
(* Constants of the program.                                               *)

\* SVTypes is imported from .constants; model.py names DEL, DUP, INS and INV.
\* BND stands for any further member of the enumeration.
SVTypes == {"DEL", "DUP", "INS", "INV", "BND"}

Channels == {"pe", "sr1", "sr2"}

\* Fixed-point denominator: 0.01, the smallest default, is 1/Unit.
Unit == 100
mu_eps_pe == 10
mu_eps_sr1 == 10
mu_eps_sr2 == 10
mu_lambda_pe == 10
mu_lambda_sr1 == 10
mu_lambda_sr2 == 10
mu_eta_q == 10
mu_eta_r == 1

mu_eps == [pe |-> mu_eps_pe, sr1 |-> mu_eps_sr1, sr2 |-> mu_eps_sr2]
mu_lambda == [pe |-> mu_lambda_pe, sr1 |-> mu_lambda_sr1, sr2 |-> mu_lambda_sr2]

\* Names of the sample sites of model(), per channel.
pi_site == [pe |-> "pi_pe", sr1 |-> "pi_sr1", sr2 |-> "pi_sr2"]
lambda_site == [pe |-> "lambda_pe", sr1 |-> "lambda_sr1", sr2 |-> "lambda_sr2"]
phi_site == [pe |-> "phi_pe", sr1 |-> "phi_sr1", sr2 |-> "phi_sr2"]
eps_site == [pe |-> "eps_pe", sr1 |-> "eps_sr1", sr2 |-> "eps_sr2"]
m_site == [pe |-> "m_pe", sr1 |-> "m_sr1", sr2 |-> "m_sr2"]
obs_site == [pe |-> "pe_obs", sr1 |-> "sr1_obs", sr2 |-> "sr2_obs"]

-----------------------------------------------------------------------------
(* SVGenotyperPyroModel.__init__                                           *)

Raise(e) == [raised |-> TRUE, error |-> e, value |-> <<>>]
Return(v) == [raised |-> FALSE, error |-> "", value |-> v]

\* Lines 63-70.  k is <<>> for None, <<n>> for an explicit n.  The value is <<self.k>>.
DerivedK(svtype, k) ==
    IF k # <<>> THEN Return(k)
    ELSE IF svtype \in {"DEL", "INS", "INV"} THEN Return(<<3>>)
    ELSE IF svtype = "DUP" THEN Return(<<5>>)
    ELSE Raise("ValueError")

\* A variant of ClassSites without the final else branch of lines 84-85.
ClassSitesNoElse(svtype) ==
    IF svtype \in {"DEL", "DUP"}
    THEN Return(<<"pi_sr1", "pi_sr2", "pi_pe", "pi_rd", "eps_pe", "eps_sr1", "eps_sr2",
                  "lambda_pe", "lambda_sr1", "lambda_sr2", "phi_pe", "phi_sr1", "phi_sr2">>)
    ELSE IF svtype = "INV"
    THEN Return(<<"pi_sr1", "pi_sr2", "pi_pe", "eps_pe", "eps_sr1", "eps_sr2",
                  "lambda_pe", "lambda_sr1", "lambda_sr2", "phi_pe", "phi_sr1", "phi_sr2">>)
    ELSE Return(<<"pi_sr1", "pi_sr2", "eps_sr1", "eps_sr2",
                  "lambda_sr1", "lambda_sr2", "phi_sr1", "phi_sr2">>)

\* Lines 72-85: self.latent_sites by variant class.
ClassSites(svtype) ==
    IF svtype = "DEL"
    THEN Return(<<"pi_sr1", "pi_sr2", "pi_pe", "pi_rd", "eps_pe", "eps_sr1", "eps_sr2",
                  "lambda_pe", "lambda_sr1", "lambda_sr2", "phi_pe", "phi_sr1", "phi_sr2">>)
    ELSE IF svtype = "DUP"
    THEN Return(<<"pi_sr1", "pi_sr2", "pi_pe", "pi_rd", "eps_pe", "eps_sr1", "eps_sr2",
                  "lambda_pe", "lambda_sr1", "lambda_sr2", "phi_pe", "phi_sr1", "phi_sr2">>)
    ELSE IF svtype = "INS"
    THEN Return(<<"pi_sr1", "pi_sr2", "eps_sr1", "eps_sr2",
                  "lambda_sr1", "lambda_sr2", "phi_sr1", "phi_sr2">>)
    ELSE IF svtype = "INV"
    THEN Return(<<"pi_sr1", "pi_sr2", "pi_pe", "eps_pe", "eps_sr1", "eps_sr2",
                  "lambda_pe", "lambda_sr1", "lambda_sr2", "phi_pe", "phi_sr1", "phi_sr2">>)
    ELSE Raise("ValueError")

\* Lines 87-93 with eta_r appended for K = 3 as well.
StateSitesBoth(sites, k) ==
    IF k = 3 \/ k = 5 THEN Return(Append(Append(sites, "eta_q"), "eta_r"))
    ELSE Raise("ValueError")

\* Lines 87-93: the rate sites appended for self.k.
StateSites(sites, k) ==
    IF k = 3 THEN Return(Append(sites, "eta_q"))
    ELSE IF k = 5 THEN Return(Append(Append(sites, "eta_q"), "eta_r"))
    ELSE Raise("ValueError")

NoObject == [svtype |-> "", k |-> 0, latent_sites |-> <<>>]

\* Lines 29-95: the constructed object, or the exception raised.
NewModel(svtype, k) ==
    LET dk == DerivedK(svtype, k) IN
    IF dk.raised THEN Raise(dk.error)
    ELSE LET cs == ClassSites(svtype) IN
         IF cs.raised THEN Raise(cs.error)
         ELSE LET ss == StateSites(cs.value, dk.value[1]) IN
              IF ss.raised THEN Raise(ss.error)
              ELSE Return([svtype |-> svtype, k |-> dk.value[1],
                           latent_sites |-> ss.value])

KArgs == {<<>>} \cup {<<n>> : n \in 0..MaxKArg}

-----------------------------------------------------------------------------
(* Shapes                                                                  *)

Max2(a, b) == IF a >= b THEN a ELSE b

\* A shape left-padded with ones to n dimensions.
Pad(s, n) == [j \in 1..n |-> IF j <= n - Len(s) THEN 1 ELSE s[j - (n - Len(s))]]

\* torch broadcasting of two compatible shapes.
Broadcast(a, b) ==
    LET n == Max2(Len(a), Len(b))
        pa == Pad(a, n)
        pb == Pad(b, n)
    IN [j \in 1..n |-> IF pa[j] = 1 THEN pb[j] ELSE pa[j]]

\* x.unsqueeze(-1)
Unsqueeze(s) == Append(s, 1)

\* Shape of a value sampled in the variant plate (line 124: dim=-2) from a
\* distribution of batch shape bs.
InVariantPlate(bs, V) == Broadcast(bs, <<V, 1>>)

\* Shape of a value sampled in the variant and sample plates (lines 124, 166).
InSamplePlate(bs, V, S) == Broadcast(bs, <<V, S>>)

\* Lines 107-108: zero_t and one_t have shape (1,).
ScalarShape == <<1>>

Tensor(shape, val) == [shape |-> shape, val |-> val]

-----------------------------------------------------------------------------
(* model(): which sites are sampled                                        *)

\* The test of lines 120, 130, 168, 189 dropped: every class uses paired-end evidence.
UsesPairedEndAlways(svtype) == TRUE

\* Lines 120, 130, 168, 189: the paired-end channel is skipped for INS.
UsesPairedEnd(svtype) == svtype # "INS"

\* Lines 117, 125: read-depth support is sampled for DEL and DUP only.
UsesReadDepth(svtype) == svtype = "DEL" \/ svtype = "DUP"

\* The channels whose emission model() evaluates.
ActiveChannels(svtype) == IF UsesPairedEnd(svtype) THEN Channels ELSE {"sr1", "sr2"}

\* The continuous sample statements model() executes (lines 111-153).
ContinuousSites(svtype, k) ==
    {"pi_sr1", "pi_sr2", "lambda_sr1", "lambda_sr2"}
    \cup (IF UsesReadDepth(svtype) THEN {"pi_rd"} ELSE {})
    \cup (IF UsesPairedEnd(svtype) THEN {"pi_pe", "lambda_pe"} ELSE {})
    \cup (IF UsesPairedEnd(svtype) THEN {"phi_pe", "eps_pe"} ELSE {})
    \cup {"phi_sr1", "phi_sr2", "eps_sr1", "eps_sr2"}
    \cup {"eta_q"}
    \cup (IF k = 5 THEN {"eta_r"} ELSE {})

\* The discrete sample statements model() executes (lines 126, 133, 141, 142, 187).
DiscreteSites(svtype) ==
    (IF UsesReadDepth(svtype) THEN {"m_rd"} ELSE {})
    \cup (IF UsesPairedEnd(svtype) THEN {"m_pe"} ELSE {})
    \cup {"m_sr1", "m_sr2", "z"}

\* The observed sample statements (lines 195, 207, 208).
ObservedSites(svtype) ==
    (IF UsesPairedEnd(svtype) THEN {"pe_obs"} ELSE {}) \cup {"sr1_obs", "sr2_obs"}

-----------------------------------------------------------------------------
(* model(): the genotype-state prior                                       *)

RECURSIVE Pow2(_)
Pow2(n) == IF n <= 0 THEN 1 ELSE 2 * Pow2(n - 1)

\* Probabilities derived from one rate are numerators over ProbDen.
ProbDen == Pow2(MaxEta)

\* torch.exp(-eta), as a numerator over ProbDen.  eta is in units of ln(2)/Unit;
\* beyond MaxEta the float result underflows to 0.
ExpNeg(eta) ==
    LET e == eta \div Unit
    IN IF e > MaxEta THEN 0 ELSE Pow2(MaxEta - e)

\* Denominator of the entries of z_prior for k states.
PriorDen(k) == IF k = 3 THEN ProbDen * ProbDen
               ELSE ProbDen * ProbDen * ProbDen * ProbDen

\* Lines 152-162 with z2 = p * r + q * q.
ZPrior5Halved(eta_q, eta_r) ==
    LET q == ProbDen - ExpNeg(eta_q)
        r == (ProbDen - q) * (ProbDen - ExpNeg(eta_r))
        p == ProbDen * ProbDen - q * ProbDen - r
        qq == q * ProbDen
    IN <<p * p, 2 * qq * p, p * r + qq * qq, 2 * qq * r, r * r>>

\* Lines 145-151.  Entries are numerators over ProbDen^2.
ZPrior3(eta_q) ==
    LET q == ProbDen - ExpNeg(eta_q)
        p == ProbDen - q
        z0 == p * p
        z1 == 2 * p * q
        z2 == q * q
    IN <<z0, z1, z2>>

\* Lines 152-162.  q is over ProbDen, r and p over ProbDen^2, the entries
\* over ProbDen^4 (qq is q over ProbDen^2).
ZPrior5(eta_q, eta_r) ==
    LET q == ProbDen - ExpNeg(eta_q)
        r == (ProbDen - q) * (ProbDen - ExpNeg(eta_r))
        p == ProbDen * ProbDen - q * ProbDen - r
        qq == q * ProbDen
        z0 == p * p
        z1 == 2 * qq * p
        z2 == 2 * p * r + qq * qq
        z3 == 2 * qq * r
        z4 == r * r
    IN <<z0, z1, z2, z3, z4>>

-----------------------------------------------------------------------------
(* model(): read-depth override and emission                               *)

\* Line 186 as a blend that leaves the prior's weight at 1.
ZWeightsBlend(m_rd, rd_gt_prob, z_prior) ==
    [j \in DOMAIN z_prior |-> m_rd * rd_gt_prob[j] + z_prior[j]]

\* Line 186: z_weights = m_rd * rd_gt_prob_t + (1 - m_rd) * z_prior.
ZWeights(m_rd, rd_gt_prob, z_prior) ==
    [j \in DOMAIN z_prior |-> m_rd * rd_gt_prob[j] + (1 - m_rd) * z_prior[j]]

\* Lines 170, 177, 178 with k_range_t starting at 1.
M1LocsFromOne(phi, eps, k) == [j \in 1..k |-> phi * j * Unit + eps]

\* Lines 170, 177, 178: phi * k_range_t + eps, k_range_t = arange(0, k)
\* (line 109).  Entry j is for state j - 1; phi is a pure number, eps is in 1/Unit.
M1Locs(phi, eps, k) == [j \in 1..k |-> phi * (j - 1) * Unit + eps]

\* Lines 172, 180, 181: eps expanded along the state axis.
M0Locs(eps, k) == [j \in 1..k |-> eps]

\* Lines 174, 183, 184: (1 - m) * m0_locs + m * m1_locs.
Locs(m, m0_locs, m1_locs) ==
    [j \in DOMAIN m0_locs |-> (1 - m) * m0_locs[j] + m * m1_locs[j]]

\* Lines 191, 198, 199: depth_t * Vindex(locs)[..., z], in 1/Unit.
MuObs(depth, locs, z) == depth * locs[z + 1]

\* Lines 192, 201, 202: mu_obs * (1 + lambda), in 1/Unit^2.
Var(mu_obs, lambda) == mu_obs * (Unit + lambda)

\* Lines 193, 203, 204: mu_obs * mu_obs / (var - mu_obs), as <<num, den>>.
TotalCount(mu_obs, var) == <<mu_obs * mu_obs, var - mu_obs * Unit>>

\* Lines 194, 205, 206: (var - mu_obs) / var, as <<num, den>>.
Probs(mu_obs, var) == <<var - mu_obs * Unit, var>>

\* A float quotient with a zero denominator is inf or nan.
NonFinite(x) == x[2] = 0

\* The emission locals of one channel at support m and state z.
Emission(ch, given, m, z, depth, k) ==
    LET phi == given[phi_site[ch]]
        eps == given[eps_site[ch]] * mu_eps[ch]
        lambda == given[lambda_site[ch]] * mu_lambda[ch]
        m1_locs == M1Locs(phi, eps, k)
        m0_locs == M0Locs(eps, k)
        locs == Locs(m, m0_locs, m1_locs)
        mu_obs == MuObs(depth, locs, z)
        var == Var(mu_obs, lambda)
    IN [locs |-> locs, mu_obs |-> mu_obs, var |-> var,
        r |-> TotalCount(mu_obs, var), p |-> Probs(mu_obs, var)]

\* Lines 144-164: z_prior, or the ValueError of line 164.
ZPrior(given, k) ==
    IF k = 3 THEN Return(ZPrior3(given["eta_q"] * mu_eta_q))
    ELSE IF k = 5 THEN Return(ZPrior5(given["eta_q"] * mu_eta_q,
                                      given["eta_r"] * mu_eta_r))
    ELSE Raise("ValueError")

\* The distribution of each sample statement of model() (lines 111-208).
SiteDist(s) ==
    IF s \in {"pi_sr1", "pi_sr2", "pi_pe", "pi_rd"} THEN "Beta"
    ELSE IF s \in {"lambda_pe", "lambda_sr1", "lambda_sr2", "eps_pe", "eps_sr1",
                   "eps_sr2", "eta_q", "eta_r"} THEN "Exponential"
    ELSE IF s \in {"phi_pe", "phi_sr1", "phi_sr2"} THEN "LogNormal"
    ELSE IF s \in {"m_pe", "m_sr1", "m_sr2", "m_rd"} THEN "Bernoulli"
    ELSE IF s = "z" THEN "Categorical"
    ELSE "NegativeBinomial"

\* model() has no return statement: the _RETURN node of its trace holds None.
ModelReturn == "None"

\* Lines 98-208: one evaluation of model() on dt, with the continuous sites
\* taking the values in given and the discrete sites the values in disc.
\* The result holds the trace nodes (site -> tensor) and the locals.
Model(obj, given, disc, dt) ==
    LET svtype == obj.svtype
        k == obj.k
        V == dt.V
        S == dt.S
        zp == ZPrior(given, k)
        m_rd == IF UsesReadDepth(svtype)
                THEN Tensor(InVariantPlate(ScalarShape, V), disc.m_rd)
                ELSE Tensor(Unsqueeze(<<V>>), 0)
        m == [ch \in Channels |->
                 IF ch = "pe" /\ ~UsesPairedEnd(svtype)
                 THEN Tensor(Unsqueeze(<<V>>), 0)
                 ELSE Tensor(InVariantPlate(ScalarShape, V), disc[m_site[ch]])]
        z_prior == Tensor(Append(InVariantPlate(ScalarShape, V), k), zp.value)
        z_weights ==
            Tensor(Broadcast(Broadcast(Unsqueeze(m_rd.shape), <<V, S, k>>),
                             Broadcast(Unsqueeze(m_rd.shape), z_prior.shape)),
                   ZWeights(m_rd.val, dt.rd_gt_prob, z_prior.val))
        z == Tensor(InSamplePlate(SubSeq(z_weights.shape, 1, Len(z_weights.shape) - 1),
                                  V, S),
                    disc.z)
        em == [ch \in ActiveChannels(svtype) |->
                  Emission(ch, given, m[ch].val, z.val, dt.depth, k)]
        nodes ==
            [s \in ContinuousSites(svtype, k) \cup DiscreteSites(svtype)
                   \cup ObservedSites(svtype) |->
                IF s \in {"pi_sr1", "pi_sr2", "pi_pe", "pi_rd",
                          "lambda_pe", "lambda_sr1", "lambda_sr2"}
                THEN Tensor(ScalarShape, given[s])
                ELSE IF s \in ContinuousSites(svtype, k)
                THEN Tensor(InVariantPlate(ScalarShape, V), given[s])
                ELSE IF s = "m_rd" THEN m_rd
                ELSE IF s = "z" THEN z
                ELSE IF s \in {"m_pe", "m_sr1", "m_sr2"}
                THEN m[CHOOSE ch \in Channels : m_site[ch] = s]
                ELSE Tensor(<<V, S>>, dt.counts)]
    IN IF zp.raised THEN Raise(zp.error)
       ELSE Return([nodes |-> nodes, dist |-> [s \in DOMAIN nodes |-> SiteDist(s)],
                    m_rd |-> m_rd, m |-> m, z_prior |-> z_prior,
                    z_weights |-> z_weights, z |-> z, em |-> em,
                    ret |-> ModelReturn])

-----------------------------------------------------------------------------
(* The guide and the inputs                                                *)

SeqRange(q) == {q[j] : j \in DOMAIN q}

\* Line 95: AutoDiagonalNormal over the model with only latent_sites exposed
\* has one latent per exposed site the model samples.
GuideSites(obj) == SeqRange(obj.latent_sites) \cap ContinuousSites(obj.svtype, obj.k)

\* Continuous sites the guide does not cover are drawn afresh by model().
FreshSites(obj) == ContinuousSites(obj.svtype, obj.k) \ GuideSites(obj)

\* Values a continuous site takes on the grid: pi in (0,1) in 1/Unit, the
\* Exponential(1) sites before scaling (eta so that the scaled rate is a
\* multiple of ln 2), the LogNormal sites phi > 0.
SiteVals(s) ==
    IF s \in {"pi_sr1", "pi_sr2", "pi_pe", "pi_rd"} THEN {Unit \div 2}
    ELSE IF s \in {"lambda_pe", "lambda_sr1", "lambda_sr2"} THEN 0..MaxLambda
    ELSE IF s \in {"eps_pe", "eps_sr1", "eps_sr2"} THEN 0..MaxEps
    ELSE IF s \in {"phi_pe", "phi_sr1", "phi_sr2"} THEN 1..MaxPhi
    ELSE IF s = "eta_q" THEN {j * (Unit \div mu_eta_q) : j \in 0..(MaxEta + 1)}
    ELSE {j * (Unit \div mu_eta_r) : j \in 0..(MaxEta + 1)}

\* A fitted point: split-read support certain (pi_sr saturated at 1.0), both
\* rates at 0 (every genotype is state 0 unless read depth overrides).
FittedVal(s) ==
    IF s \in {"pi_sr1", "pi_sr2"} THEN Unit
    ELSE IF s \in {"pi_pe", "pi_rd"} THEN Unit \div 2
    ELSE IF s \in {"eta_q", "eta_r"} THEN 0
    ELSE 1

\* The reference point of the grid.
RefVal(s) ==
    IF s \in {"pi_sr1", "pi_sr2", "pi_pe", "pi_rd"} THEN Unit \div 2
    ELSE IF s = "eta_q" THEN Unit \div mu_eta_q
    ELSE IF s = "eta_r" THEN Unit \div mu_eta_r
    ELSE 1

SiteGroup(s) ==
    IF s \in {"pi_sr1", "pi_sr2", "pi_pe", "pi_rd"} THEN "pi"
    ELSE IF s \in {"eta_q", "eta_r"} THEN "eta"
    ELSE IF s \in {"lambda_pe", "eps_pe", "phi_pe"} THEN "pe"
    ELSE IF s \in {"lambda_sr1", "eps_sr1", "phi_sr1"} THEN "sr1"
    ELSE "sr2"

\* Assignments to sites in which only the sites of group grp leave the reference point.
GroupGrid(sites, grp) ==
    LET gs == {s \in sites : SiteGroup(s) = grp}
        vals == UNION {SiteVals(s) : s \in gs}
        hs == {h \in [gs -> vals] : \A s \in gs : h[s] \in SiteVals(s)}
    IN {[s \in sites |-> IF s \in gs THEN h[s] ELSE RefVal(s)] : h \in hs}

\* The grid of traces in which at most one group of sites (one evidence
\* channel, or the rates) leaves the reference point.
StarGrid(sites) == UNION {GroupGrid(sites, grp) : grp \in {"pe", "sr1", "sr2", "eta"}}

\* A guide concentrated on the fitted point.
PointGrid(sites) == {[s \in sites |-> FittedVal(s)]}

\* Sites the guide does not cover, drawn at the reference point.
FreshGrid(sites) == {[s \in sites |-> RefVal(s)]}

OneHot(k, h) == [j \in 1..k |-> IF j = h THEN PriorDen(k) ELSE 0]

\* A row with every state possible, as numerators over PriorDen(k).
MixedRow(k) ==
    LET b == PriorDen(k) \div (k + 1)
    IN [j \in 1..k |-> IF j = 1 THEN PriorDen(k) - (k - 1) * b ELSE b]

\* SVGenotyperData (lines 14-25) for a model of k states: the dimensions, and
\* at the index (v, s) the depth, the rd_gt_prob row and the observed count.
Bundle(V, S, depth, row) ==
    [V |-> V, S |-> S, depth |-> depth, rd_gt_prob |-> row, counts |-> 0]

\* Bundles of every dimension with one content.
ShapeBundles(k) == {Bundle(V, S, 1, OneHot(k, k)) : V \in 1..MaxV, S \in 1..MaxS}

\* Bundles of one variant and one sample with every content.
CellBundles(k) ==
    {Bundle(1, 1, d, row) : d \in 1..MaxDepth,
                            row \in {OneHot(k, k), MixedRow(k)}}

NoData == Bundle(0, 0, 0, <<>>)

-----------------------------------------------------------------------------
(* Discrete inference on one replayed trace                                *)

\* Values a Bernoulli(pi) site can take.
BernoulliSupport(pi) == {b \in {0, 1} : (b = 1 => pi > 0) /\ (b = 0 => pi < Unit)}

\* Some candidate assignment of the enumeration has a negative-binomial
\* parameter that is not finite: the enumerated log-probabilities are nan.
Degenerate(obj, given, dt) ==
    \E ch \in ActiveChannels(obj.svtype) : \E mm \in {0, 1} : \E zz \in 0..(obj.k - 1) :
        LET e == Emission(ch, given, mm, zz, dt.depth, obj.k)
        IN NonFinite(e.r) \/ NonFinite(e.p)

\* pyro.infer.infer_discrete(model, temperature=1): the assignments to the
\* discrete sites that have positive conditional probability given the
\* continuous values.  Every finite likelihood is positive, so these are the
\* assignments of positive prior weight; with nan log-probabilities any
\* assignment may come out (nan: whether they are).  Sites the model does not
\* sample are held at 0.
DiscreteChoices(obj, given, dt, nan) ==
    LET svtype == obj.svtype
        zp == ZPrior(given, obj.k)
        all == [m_pe : IF UsesPairedEnd(svtype) THEN BernoulliSupport(given["pi_pe"])
                       ELSE {0},
                m_sr1 : BernoulliSupport(given["pi_sr1"]),
                m_sr2 : BernoulliSupport(given["pi_sr2"]),
                m_rd : IF UsesReadDepth(svtype) THEN BernoulliSupport(given["pi_rd"])
                       ELSE {0},
                z : 0..(obj.k - 1)]
    IN IF zp.raised THEN {[m_pe |-> 0, m_sr1 |-> 0, m_sr2 |-> 0, m_rd |-> 0, z |-> 0]}
       ELSE {d \in all :
                nan \/ ZWeights(d.m_rd, dt.rd_gt_prob, zp.value)[d.z + 1] > 0}

-----------------------------------------------------------------------------
(* infer_discrete and infer_discrete_full                                  *)

\* Lines 219-223: the sites infer_discrete reads from each trace.
InferDiscreteSites(svtype) ==
    <<"z", "m_sr1", "m_sr2">>
    \o (IF svtype = "DEL" \/ svtype = "DUP" \/ svtype = "INV" THEN <<"m_pe">> ELSE <<>>)
    \o (IF svtype = "DEL" \/ svtype = "DUP" THEN <<"m_rd">> ELSE <<>>)

\* torch.stack(ts, dim=0) of a non-empty list: a new leading axis; the entry
\* at (v, s) becomes one entry per stacked tensor.
Stack(ts) == Tensor(<<Len(ts)>> \o ts[1].shape, [j \in 1..Len(ts) |-> ts[j].val])

\* np.zeros(shape) for a stacked shape.
Zeros(shape) == Tensor(shape, [j \in 1..shape[1] |-> 0])

\* Lines 247, 251 with the shape of z in place of that of m_sr1.
MissingSiteLikeZ(stacked) == Zeros(stacked["z"].shape)

\* Lines 247, 251: np.zeros(m_sr1.shape) stands for a site that was not read.
MissingSite(stacked) == Zeros(stacked["m_sr1"].shape)

\* Lines 238-258: the mapping infer_discrete returns.
InferDiscreteResult(samples, sites) ==
    LET stacked == [s \in SeqRange(sites) |->
                       Stack([j \in 1..Len(samples) |-> samples[j][s]])]
    IN [z |-> stacked["z"],
        m_pe |-> IF "m_pe" \in DOMAIN stacked THEN stacked["m_pe"]
                 ELSE MissingSite(stacked),
        m_sr1 |-> stacked["m_sr1"],
        m_sr2 |-> stacked["m_sr2"],
        m_rd |-> IF "m_rd" \in DOMAIN stacked THEN stacked["m_rd"]
                 ELSE MissingSite(stacked)]

\* Lines 285-325: the mapping infer_discrete_full returns from the recorded
\* return values; counts are the values drawn from the negative binomials.
InferDiscreteFullResult(samples, svtype, counts) ==
    LET n == Len(samples)
        col(f) == Stack([j \in 1..n |-> samples[j][f]])
        r_pe == col("r_pe")
    IN [z |-> col("z"),
        pe |-> IF svtype = "INS"
               THEN Tensor(<<n, r_pe.shape[1], r_pe.shape[2]>>, [j \in 1..n |-> 0])
               ELSE Tensor(r_pe.shape, counts["pe"]),
        sr1 |-> Tensor(col("r_sr1").shape, counts["sr1"]),
        sr2 |-> Tensor(col("r_sr2").shape, counts["sr2"]),
        m_pe |-> col("m_pe"),
        m_sr1 |-> col("m_sr1"),
        m_sr2 |-> col("m_sr2"),
        m_rd |-> col("m_rd")]

NoCall == [method |-> "", svtype |-> "", k |-> <<>>, n_samples |-> 0, sites |-> <<>>]
NoTrace == [id |-> 0, values |-> <<>>]
NoEval == [nodes |-> <<>>]
NoResult == <<>>

Init ==
    /\ pc = "new"
    /\ self = NoObject
    /\ error = ""
    /\ data = NoData
    /\ call = NoCall
    /\ i = 0
    /\ guide_trace = NoTrace
    /\ guide_draws = 0
    /\ replayed = <<>>
    /\ posterior_samples = <<>>
    /\ last = NoEval
    /\ result = NoResult

\* SVGenotyperPyroModel(svtype, k): lines 29-95.
Construct ==
    /\ pc = "new"
    /\ \E svtype \in SVTypes : \E k \in KArgs :
          LET made == NewModel(svtype, k)
          IN /\ call' = [NoCall EXCEPT !.method = "__init__", !.svtype = svtype, !.k = k]
             /\ IF made.raised
                THEN /\ pc' = "raised"
                     /\ error' = made.error
                     /\ self' = self
                ELSE /\ pc' = "ready"
                     /\ error' = error
                     /\ self' = made.value
    /\ UNCHANGED <<data, i, guide_trace, guide_draws, replayed, posterior_samples,
                   last, result>>

\* Lines 217-228 and 260-266: the call of an inference method up to its loop.
\* The guide is traced once, here, and the model is set to replay that trace.
CallInfer(method, bundles, grid, ns, args) ==
    /\ pc = "ready"
    /\ \E dt \in bundles : \E g \in grid : \E n \in ns : \E svtype \in args :
          /\ data' = dt
          /\ call' = [NoCall EXCEPT !.method = method, !.svtype = svtype,
                                    !.n_samples = n,
                                    !.sites = InferDiscreteSites(svtype)]
          /\ guide_trace' = [id |-> guide_draws + 1, values |-> g]
    /\ guide_draws' = guide_draws + 1
    /\ posterior_samples' = <<>>
    /\ replayed' = <<>>
    /\ i' = 0
    /\ pc' = "loop"
    /\ UNCHANGED <<self, error, last, result>>

CallInferDiscrete(bundles, grid, ns, args) ==
    CallInfer("infer_discrete", bundles, grid, ns, args)

CallInferDiscreteFull(bundles, grid, ns, args) ==
    CallInfer("infer_discrete_full", bundles, grid, ns, args)

\* One evaluation of the inferred model on the replayed trace (lines 231-234,
\* 268-271): its outcome t, or the rejection of nan log-probabilities by the
\* library.
Evaluate(t, rejected) ==
    IF t.raised THEN t
    ELSE IF rejected THEN Raise("DistributionError")
    ELSE t

\* Lines 230-237: one iteration of the loop of infer_discrete.
InferDiscreteIter ==
    /\ pc = "loop"
    /\ call.method = "infer_discrete"
    /\ i < call.n_samples
    /\ \E fresh \in FreshGrid(FreshSites(self)) :
          \E given \in {guide_trace.values @@ fresh} :
          \E nan \in {Degenerate(self, given, data)} :
          \E disc \in DiscreteChoices(self, given, data, nan) :
          \E rejected \in (IF nan THEN BOOLEAN ELSE {FALSE}) :
          \E t \in {Evaluate(Model(self, given, disc, data), rejected)} :
             IF t.raised
             THEN /\ pc' = "raised"
                  /\ error' = t.error
                  /\ UNCHANGED <<posterior_samples, replayed, i, last>>
             ELSE /\ last' = t.value
                  /\ IF \E s \in SeqRange(call.sites) : s \notin DOMAIN t.value.nodes
                     THEN /\ pc' = "raised"
                          /\ error' = "KeyError"
                          /\ UNCHANGED <<posterior_samples, replayed, i>>
                     ELSE /\ posterior_samples' =
                                Append(posterior_samples,
                                       [s \in SeqRange(call.sites) |-> t.value.nodes[s]])
                          /\ replayed' = Append(replayed, guide_trace.id)
                          /\ i' = i + 1
                          /\ UNCHANGED <<pc, error>>
    /\ UNCHANGED <<self, data, call, guide_trace, guide_draws, result>>

\* Lines 238-258: the draws are stacked (torch.stack rejects an empty list)
\* and the mapping is returned.
InferDiscreteReturn ==
    /\ pc = "loop"
    /\ call.method = "infer_discrete"
    /\ i = call.n_samples
    /\ IF call.n_samples = 0
       THEN /\ pc' = "raised"
            /\ error' = "RuntimeError"
            /\ result' = result
       ELSE /\ pc' = "done"
            /\ error' = error
            /\ result' = InferDiscreteResult(posterior_samples, call.sites)
    /\ UNCHANGED <<self, data, call, i, guide_trace, guide_draws, replayed,
                   posterior_samples, last>>

\* Lines 267-284: one iteration of the first loop of infer_discrete_full,
\* which reads entries of the traced return value of model().
InferDiscreteFullIter ==
    /\ pc = "loop"
    /\ call.method = "infer_discrete_full"
    /\ i < call.n_samples
    /\ \E fresh \in FreshGrid(FreshSites(self)) :
          \E given \in {guide_trace.values @@ fresh} :
          \E nan \in {Degenerate(self, given, data)} :
          \E disc \in DiscreteChoices(self, given, data, nan) :
          \E rejected \in (IF nan THEN BOOLEAN ELSE {FALSE}) :
          \E t \in {Evaluate(Model(self, given, disc, data), rejected)} :
             IF t.raised
             THEN /\ pc' = "raised"
                  /\ error' = t.error
                  /\ UNCHANGED <<posterior_samples, replayed, i, last>>
             ELSE /\ last' = t.value
                  /\ IF t.value.ret = "None"
                     THEN /\ pc' = "raised"
                          /\ error' = "TypeError"
                          /\ UNCHANGED <<posterior_samples, replayed, i>>
                     ELSE /\ posterior_samples' = Append(posterior_samples, t.value.ret)
                          /\ replayed' = Append(replayed, guide_trace.id)
                          /\ i' = i + 1
                          /\ UNCHANGED <<pc, error>>
    /\ UNCHANGED <<self, data, call, guide_trace, guide_draws, result>>

\* Lines 285-325: the recorded values are stacked (torch.stack rejects an
\* empty list), the counts are redrawn and the mapping is returned.
InferDiscreteFullReturn ==
    /\ pc = "loop"
    /\ call.method = "infer_discrete_full"
    /\ i = call.n_samples
    /\ IF call.n_samples = 0
       THEN /\ pc' = "raised"
            /\ error' = "RuntimeError"
            /\ result' = result
       ELSE /\ pc' = "done"
            /\ error' = error
            /\ \E counts \in [Channels -> [1..call.n_samples -> 0..MaxCount]] :
                  result' = InferDiscreteFullResult(posterior_samples, call.svtype, counts)
    /\ UNCHANGED <<self, data, call, i, guide_trace, guide_draws, replayed,
                   posterior_samples, last>>

\* The object's life with data of every dimension and a guide concentrated
\* on one point.
Next ==
    \/ Construct
    \/ CallInferDiscrete(ShapeBundles(self.k), PointGrid(GuideSites(self)),
                         0..MaxN, SVTypes)
    \/ InferDiscreteIter
    \/ InferDiscreteReturn
    \/ CallInferDiscreteFull(ShapeBundles(self.k), PointGrid(GuideSites(self)),
                             0..MaxN, SVTypes)
    \/ InferDiscreteFullIter
    \/ InferDiscreteFullReturn

Spec == Init /\ [][Next]_vars

\* One draw of infer_discrete on a single cell, over the grid of guide traces
\* and of cell contents.
NextCell ==
    \/ Construct
    \/ CallInferDiscrete(CellBundles(self.k), StarGrid(GuideSites(self)),
                         {1}, {self.svtype})
    \/ InferDiscreteIter

SpecCell == Init /\ [][NextCell]_vars

-----------------------------------------------------------------------------
(* Properties                                                              *)

Supported == {"DEL", "DUP", "INS", "INV"}

RECURSIVE SumTo(_, _)
SumTo(q, n) == IF n = 0 THEN 0 ELSE q[n] + SumTo(q, n - 1)
Sum(q) == SumTo(q, Len(q))

\* model() has been evaluated to its end at least once.
Evaluated == DOMAIN last.nodes # {}

AllZero(t) == \A j \in DOMAIN t.val : t.val[j] = 0

Returned(method) == pc = "done" /\ call.method = method

\* The K the constructor decides on: the explicit k if given, else the derived one.
EffectiveK == IF call.k # <<>> THEN call.k[1]
              ELSE IF call.svtype = "DUP" THEN 5 ELSE 3

\* C1: construction raises ValueError exactly when the class is unsupported
\* or the effective K is not 3 or 5 (also for a valid explicit k with an
\* unsupported class); a constructed object has a supported class and K in
\* {3, 5}; no later call ends in a configuration error.
C1_ConfigurationErrorAtConstruction ==
    /\ (call.method = "__init__" /\ pc # "new") =>
          ((pc = "raised" /\ error = "ValueError")
             <=> ~(call.svtype \in Supported /\ EffectiveK \in {3, 5}))
    /\ (pc \in {"ready", "loop", "done"} \/ (pc = "raised" /\ call.method # "__init__"))
          => (self.svtype \in Supported /\ self.k \in {3, 5})
    /\ (pc = "raised" /\ call.method # "__init__") => error # "ValueError"

\* C1 witness: an explicit valid k with an unsupported class was rejected.
C1_Witness ==
    /\ pc = "raised" /\ call.method = "__init__" /\ error = "ValueError"
    /\ call.svtype = "BND" /\ call.k = <<3>>

\* C2: in a run of infer_discrete, no two collected draws replay the same
\* guide trace: each draw has a continuous-parameter draw of its own.
C2_EachDrawOwnGuideTrace ==
    Returned("infer_discrete") =>
        \A a, b \in DOMAIN replayed : a # b => replayed[a] # replayed[b]

\* C3: infer_discrete_full with N >= 1 on a supported class completes without
\* error and its mapping holds the resampled counts pe, sr1, sr2 beside the
\* discrete sites.
C3_FullReturnsResampledCounts ==
    (/\ call.method = "infer_discrete_full"
     /\ call.svtype = self.svtype
     /\ call.n_samples >= 1
     /\ pc # "loop")
    => (/\ pc = "done"
        /\ {"z", "pe", "sr1", "sr2", "m_pe", "m_sr1", "m_sr2", "m_rd"} \subseteq DOMAIN result)

\* C4 as stated: the mapping infer_discrete returns has exactly the keys z,
\* m_pe, m_sr1, m_sr2, m_rd and each array has shape [N, V, S].
C4_AllShapesNVS ==
    Returned("infer_discrete") =>
        /\ DOMAIN result = {"z", "m_pe", "m_sr1", "m_sr2", "m_rd"}
        /\ \A key \in DOMAIN result :
              result[key].shape = <<call.n_samples, data.V, data.S>>

\* C4 amended: the mapping infer_discrete returns has exactly the keys z,
\* m_pe, m_sr1, m_sr2, m_rd; z has shape [N, V, S] and each support
\* indicator, sampled or zero-filled, has shape [N, V, 1].
C4_ShapesPerVariantSupport ==
    Returned("infer_discrete") =>
        /\ DOMAIN result = {"z", "m_pe", "m_sr1", "m_sr2", "m_rd"}
        /\ result["z"].shape = <<call.n_samples, data.V, data.S>>
        /\ \A key \in {"m_pe", "m_sr1", "m_sr2", "m_rd"} :
              result[key].shape = <<call.n_samples, data.V, 1>>

\* C4 witness: an Insertion model returned, with zero-filled m_pe and m_rd,
\* for more than one sample and more than one draw.
C4_Witness ==
    /\ Returned("infer_discrete")
    /\ self.svtype = "INS" /\ call.svtype = "INS"
    /\ data.S >= 2 /\ data.V >= 2 /\ call.n_samples >= 2

\* C5: for the Insertion class the returned m_pe and m_rd are zero at every
\* draw, variant and sample, whatever the inputs and the svtype argument, and
\* an Insertion model samples no paired-end or read-depth support indicator.
C5_InsertionNeverPopulatesPeRd ==
    /\ (Returned("infer_discrete") /\ (self.svtype = "INS" \/ call.svtype = "INS"))
          => (AllZero(result["m_pe"]) /\ AllZero(result["m_rd"]))
    /\ (Evaluated /\ self.svtype = "INS")
          => (/\ "m_pe" \notin DOMAIN last.nodes
              /\ "m_rd" \notin DOMAIN last.nodes
              /\ last.m["pe"].val = 0
              /\ last.m_rd.val = 0)

\* C5 witness: an Insertion model returned draws in which a sampled
\* indicator (m_sr1) is not zero.
C5_Witness ==
    /\ Returned("infer_discrete")
    /\ self.svtype = "INS"
    /\ call.n_samples >= 1
    /\ ~AllZero(result["m_sr1"])

\* C6: latent_sites is exactly the set of continuous sites model() samples
\* for the object's class and K: no site the model skips, no continuous site
\* missing, no discrete or observed site, no name twice.
C6_LatentSitesAreContinuousSites ==
    Evaluated =>
        /\ SeqRange(self.latent_sites)
              = {s \in DOMAIN last.nodes :
                    last.dist[s] \in {"Beta", "Exponential", "LogNormal"}}
        /\ Cardinality(SeqRange(self.latent_sites)) = Len(self.latent_sites)

\* C6 witness: a Deletion model built with the explicit K = 5 was evaluated.
C6_Witness ==
    Evaluated /\ self.svtype = "DEL" /\ self.k = 5 /\ "eta_r" \in DOMAIN last.nodes

\* C7: the derived genotype-state prior is a probability vector: its K
\* entries are >= 0 and sum to 1, for K = 3 and for K = 5.
C7_ZPriorIsProbabilityVector ==
    Evaluated =>
        /\ Len(last.z_prior.val) = self.k
        /\ \A j \in DOMAIN last.z_prior.val : last.z_prior.val[j] >= 0
        /\ Sum(last.z_prior.val) = PriorDen(self.k)

\* C7 witness: K = 5 with both rates strictly between 0 and underflow: all
\* five entries are positive.
C7_Witness ==
    /\ Evaluated /\ self.k = 5
    /\ \A j \in DOMAIN last.z_prior.val : last.z_prior.val[j] > 0

\* C8: wherever variance <= mean for some channel at the decoded state, the
\* evaluation is rejected with an error naming the degenerate cell instead of
\* being carried on.
C8_DegeneracyRejected ==
    (Evaluated /\ \E ch \in DOMAIN last.em :
                     last.em[ch].var <= last.em[ch].mu_obs * Unit)
    => (pc = "raised" /\ error = "NumericDegeneracyError")

\* C9: the read-depth override is a switch: with m_rd = 1 the weights of z
\* are the rd_gt_prob row, with m_rd = 0 they are the derived prior, nothing
\* in between; for INS and INV m_rd is 0 and the weights are the prior.
C9_ReadDepthOverrideIsSwitch ==
    Evaluated =>
        /\ last.m_rd.val \in {0, 1}
        /\ last.m_rd.val = 1 => last.z_weights.val = data.rd_gt_prob
        /\ last.m_rd.val = 0 => last.z_weights.val = last.z_prior.val
        /\ self.svtype \in {"INS", "INV"} =>
              (last.m_rd.val = 0 /\ last.z_weights.val = last.z_prior.val)

\* C9 witness: m_rd = 1 with an rd_gt_prob row that differs from the prior.
C9_Witness ==
    /\ Evaluated /\ last.m_rd.val = 1
    /\ data.rd_gt_prob # last.z_prior.val
    /\ \E j \in DOMAIN last.z_prior.val : last.z_prior.val[j] > 0 /\ data.rd_gt_prob[j] > 0

\* C10: for each channel the mean at state k is depth * eps when the support
\* indicator is 0 and depth * (phi * k + eps), strictly increasing in k with
\* slope depth * phi, when it is 1; the likelihood uses the entry at z.
C10_EmissionMeanIdentity ==
    Evaluated =>
        \A ch \in DOMAIN last.em :
            LET e == last.em[ch]
                phi == guide_trace.values[phi_site[ch]]
                eps == guide_trace.values[eps_site[ch]] * mu_eps[ch]
                mean(st) == data.depth * e.locs[st + 1]
            IN /\ DOMAIN e.locs = 1..self.k
               /\ last.m[ch].val = 0 =>
                     \A st \in 0..(self.k - 1) : mean(st) = data.depth * eps
               /\ last.m[ch].val = 1 =>
                     /\ \A st \in 0..(self.k - 1) :
                           mean(st) = data.depth * (phi * st * Unit + eps)
                     /\ \A st \in 0..(self.k - 2) :
                           /\ mean(st + 1) - mean(st) = data.depth * phi * Unit
                           /\ mean(st + 1) > mean(st)
               /\ e.mu_obs = mean(last.z.val)

\* C10 witness: a supported channel at a state above 0 with depth and phi
\* both different from 1.
C10_Witness ==
    /\ Evaluated /\ data.depth = 2 /\ last.z.val >= 1
    /\ \E ch \in DOMAIN last.em :
          last.m[ch].val = 1 /\ guide_trace.values[phi_site[ch]] = 2

====
